---- MODULE Spec2Model ----
(***************************************************************************)
(* ForgetMult (torchqrnn/forget_mult.py): the forward kernel               *)
(* recurrent_forget_mult, the backward kernel bwd_recurrent_forget_mult,   *)
(* the sequential reference CPUForgetMult.forward and the backend selector *)
(* ForgetMult.forward.  float/double values are modelled as integers, so   *)
(* arithmetic is exact; the kernels' int index arithmetic keeps its 32-bit *)
(* range.                                                                  *)
(***************************************************************************)
EXTENDS Integers, Sequences, FiniteSets, TLC

VARIABLES
    f, x, hidden_init,      \* the operands of forward: tensors (hidden_init may be None)
    use_cuda,               \* the use_cuda argument of ForgetMult.forward
    cuda_available,         \* torch.cuda.is_available()
    main,                   \* position of the caller
    backend,                \* backend ForgetMult.forward dispatched to
    err,                    \* exception raised by the call, "none" if none
    forgets, prods, ci, prev_h, result,   \* CPUForgetMult.forward
    ret,                    \* value returned by the call, None before
    resulta, resultb, residual,   \* the caller's results
    SEQ, BATCH, HIDDEN,     \* kernel arguments
    kernel,                 \* kernel being run: "none", "fwd", "bwd"
    workers,                \* launched threads <<hid, bid>>
    dst,                    \* forward destination, saved as h for backward
    gh, gf, gx, ghinit,     \* backward: upstream gradient and gradient outputs
    pc, loc,                \* per thread: position and locals
    log,                    \* accesses made by the threads of the running kernel:
                            \* <<thread, time index, array, index, "r" or "w">>
    nwrites,                \* number of stores per <<array, index>> by the running kernel
    dst0,                   \* contents of dst when the forward kernel was launched
    junk                    \* what uninitialised device memory holds

hostvars == <<f, x, hidden_init, use_cuda, cuda_available, main, backend, err,
              forgets, prods, ci, prev_h, result, ret, resulta, resultb, residual>>
kernvars == <<SEQ, BATCH, HIDDEN, kernel, workers, dst, gh, gf, gx, ghinit,
              pc, loc, log, nwrites, dst0, junk>>
vars == <<hostvars, kernvars>>

(***************************************************************************)
(* Bounds of the model.                                                    *)
(***************************************************************************)
MaxSeq == 2
MaxLanes == 4
MaxCells == 8
MaxSeed == 1
MaxDim == 3

(***************************************************************************)
(* 32-bit int arithmetic of the kernels' index computations.  A result     *)
(* that does not fit an int is undefined behaviour: the empty set here,    *)
(* turned into a choice among UBInts where it is used.                     *)
(***************************************************************************)
IntMax == 2147483647

MulS(A, B) ==
    {p[1] * p[2] : p \in {q \in A \X B :
        \/ q[1] <= 0
        \/ q[2] <= 0
        \/ q[1] <= IntMax \div q[2]}}

AddS(A, B) ==
    {p[1] + p[2] : p \in {q \in A \X B :
        \/ q[1] <= 0
        \/ q[2] <= 0
        \/ q[1] <= IntMax - q[2]}}

UBInts == {-IntMax - 1, 0}

Outcomes(S) == IF S = {} THEN UBInts ELSE S

\* the index without the neuron offset
IndexNoHid(t, bid, hid) ==
    Outcomes(AddS(MulS(MulS({t}, {HIDDEN}), {BATCH}), MulS({bid}, {HIDDEN})))

\* the index with batches stepped by BATCH
IndexBatchStride(t, bid, hid) ==
    Outcomes(AddS(AddS(MulS(MulS({t}, {HIDDEN}), {BATCH}), MulS({bid}, {BATCH})), {hid}))

\* the index one time step early
IndexEarly(t, bid, hid) ==
    Outcomes(AddS(AddS(MulS(MulS({t - 1}, {HIDDEN}), {BATCH}), MulS({bid}, {HIDDEN})), {hid}))

\* t * HIDDEN * BATCH + bid * HIDDEN + hid, evaluated left to right in int
Index(t, bid, hid) ==
    Outcomes(AddS(AddS(MulS(MulS({t}, {HIDDEN}), {BATCH}), MulS({bid}, {HIDDEN})), {hid}))

\* if(hid >= HIDDEN || bid >= BATCH) return;
OutOfRange(hid, bid) == hid >= HIDDEN \/ bid >= BATCH

(***************************************************************************)
(* Device memory.  Memory that was never written holds junk, one of        *)
(* Garbage.  An access outside the allocation is undefined behaviour: a    *)
(* load yields junk, a store is lost.                                      *)
(***************************************************************************)
Garbage == {-7, 7}

Rd(a, i) == IF i \in DOMAIN a THEN a[i] ELSE junk

Wr(a, i, v) == IF i \in DOMAIN a THEN [a EXCEPT ![i] = v] ELSE a

Inc(m, k) == IF k \in DOMAIN m THEN [m EXCEPT ![k] = @ + 1] ELSE m @@ (k :> 1)

\* dst[dst_i] = f[i] * x[i]
StoreVal(fv, xv) == fv * xv

\* the accumulation weighted by f[i] instead of 1 - f[i]
AccValGate(cv, fv, pv) == cv + fv * pv

\* dst[dst_i] += (1 - f[i]) * dst[dst_iminus1]
AccVal(cv, fv, pv) == cv + (1 - fv) * pv

\* gx[i] = f[i] * running_f
GxVal(fv, r) == fv * r

\* gf[i] = (x[i] - h[dst_iminus1]) * running_f
GfVal(xv, hv, r) == (xv - hv) * r

\* the accumulator attenuated by f[i] instead of 1 - f[i]
NextRunningGate(r, fv) == fv * r

\* running_f = running_f - f[i] * running_f
NextRunning(r, fv) == r - fv * r

Acc(w, t, arr, i, kind) == <<w, t, arr, i, kind>>

NoLocals == [ts |-> 0, i |-> 0, dst_i |-> 0, dst_iminus1 |-> 0, running_f |-> 0]

(***************************************************************************)
(* Tensors: contiguous, row-major, of rank 2 or 3.  shape is kept as three *)
(* sizes, a rank-2 tensor having a leading size of 1 (the alignment torch  *)
(* broadcasting gives it).                                                 *)
(***************************************************************************)
None == [rank |-> 0, shape |-> <<0, 0, 0>>, data |-> <<>>, is_cuda |-> FALSE]

IsNone(t) == t.rank = 0

Numel(shape) == shape[1] * shape[2] * shape[3]

Cells(n) == 0 .. (n - 1)

Tensor(rank, shape, data, is_cuda) ==
    [rank |-> rank, shape |-> shape, data |-> data, is_cuda |-> is_cuda]

\* sizes broadcast when they are equal or one of them is 1
DimOK(a, b) == a = b \/ a = 1 \/ b = 1

BDim(a, b) == IF a = 1 THEN b ELSE a

\* compatibility of the trailing sizes alone
BroadcastableTrailing(a, b) == \A d \in 2..3 : DimOK(a.shape[d], b.shape[d])

Broadcastable(a, b) == \A d \in 1..3 : DimOK(a.shape[d], b.shape[d])

BShape(a, b) == [d \in 1..3 |-> BDim(a.shape[d], b.shape[d])]

\* the element of t that position k of a tensor of shape s is computed from
At(t, s, k) ==
    LET c0 == k \div (s[2] * s[3])
        c1 == (k \div s[3]) % s[2]
        c2 == k % s[3]
        b0 == IF t.shape[1] = 1 THEN 0 ELSE c0
        b1 == IF t.shape[2] = 1 THEN 0 ELSE c1
        b2 == IF t.shape[3] = 1 THEN 0 ELSE c2
    IN  Rd(t.data, (b0 * t.shape[2] + b1) * t.shape[3] + b2)

Max(a, b) == IF a >= b THEN a ELSE b

\* a * b
TMul(a, b) ==
    LET s == BShape(a, b) IN
    Tensor(Max(a.rank, b.rank), s,
           [k \in Cells(Numel(s)) |-> At(a, s, k) * At(b, s, k)], a.is_cuda)

\* a + b
TAdd(a, b) ==
    LET s == BShape(a, b) IN
    Tensor(Max(a.rank, b.rank), s,
           [k \in Cells(Numel(s)) |-> At(a, s, k) + At(b, s, k)], a.is_cuda)

\* the gate itself instead of its complement
OneMinusGate(a) == a

\* 1 - a
OneMinus(a) == [a EXCEPT !.data = [k \in DOMAIN a.data |-> 1 - a.data[k]]]

\* a - b of equal shapes
TSub(a, b) == [a EXCEPT !.data = [k \in DOMAIN a.data |-> a.data[k] - b.data[k]]]

\* slice n (from 0) of t along dim 0
Slice(t, n) ==
    LET m == t.shape[2] * t.shape[3] IN
    Tensor(3, <<1, t.shape[2], t.shape[3]>>, [k \in Cells(m) |-> t.data[n * m + k]], t.is_cuda)

\* t.split(1, dim=0): one slice per time step.  Of a tensor with no time step
\* torch returns, depending on its version, the empty tensor itself (keep) or
\* no chunk.
Split(t, keep) ==
    IF t.shape[1] = 0
      THEN IF keep THEN <<t>> ELSE <<>>
      ELSE [n \in 1..t.shape[1] |-> Slice(t, n - 1)]

\* h.view(h.size()[1:]) is defined when the element count is kept
ViewOK(h) == Numel(h.shape) = h.shape[2] * h.shape[3]

View(h) == Tensor(2, <<1, h.shape[2], h.shape[3]>>, h.data, h.is_cuda)

\* torch.stack(result) of rank-2 tensors needs a non-empty list of equal shapes
StackOK(r) == Len(r) > 0 /\ \A n \in 1..Len(r) : r[n].shape = r[1].shape

Stack(r) ==
    LET m == r[1].shape[2] * r[1].shape[3] IN
    Tensor(3, <<Len(r), r[1].shape[2], r[1].shape[3]>>,
           [k \in Cells(Len(r) * m) |-> r[(k \div m) + 1].data[k % m]], r[1].is_cuda)

(***************************************************************************)
(* ForgetMult.forward: the backend selector.                               *)
(***************************************************************************)
\* the demand alone, whatever devices there are
UseCudaDemand == use_cuda

\* use_cuda = use_cuda and torch.cuda.is_available()
UseCuda == use_cuda /\ cuda_available

Forward ==
    /\ main = "call"
    /\ IF UseCuda /\ ~(f.is_cuda /\ x.is_cuda)
         THEN /\ err' = "AssertionError"
              /\ main' = "raised"
              /\ backend' = backend
         ELSE /\ backend' = IF UseCuda THEN "gpu" ELSE "cpu"
              /\ main' = IF UseCuda THEN "gpu" ELSE "cpu"
              /\ err' = err
    /\ UNCHANGED <<f, x, hidden_init, use_cuda, cuda_available, forgets, prods, ci,
                   prev_h, result, ret, resulta, resultb, residual, kernvars>>

(***************************************************************************)
(* CPUForgetMult.forward.                                                  *)
(***************************************************************************)
\* result = []; forgets = f.split(1, dim=0); prev_h = hidden_init; (f * x).split(1, dim=0)
CPUStart ==
    /\ main = "cpu"
    /\ result' = <<>>
    /\ prev_h' = hidden_init
    /\ ci' = 0
    /\ \E keep \in BOOLEAN :
         /\ forgets' = Split(f, keep)
         /\ IF Broadcastable(f, x)
              THEN /\ prods' = Split(TMul(f, x), keep)
                   /\ main' = "cpu_loop"
                   /\ err' = err
              ELSE /\ prods' = prods
                   /\ main' = "raised"
                   /\ err' = "RuntimeError"
    /\ UNCHANGED <<f, x, hidden_init, use_cuda, cuda_available, backend, ret,
                   resulta, resultb, residual, kernvars>>

\* the value of h after line 83, as a set: empty when the line raises
Line83(h) ==
    IF IsNone(prev_h) THEN {h}
    ELSE IF ci >= Len(forgets) THEN {}
    ELSE LET g == OneMinus(forgets[ci + 1]) IN
         IF ~Broadcastable(g, prev_h) THEN {}
         ELSE LET gp == TMul(g, prev_h) IN
              IF ~Broadcastable(h, gp) THEN {} ELSE {TAdd(h, gp)}

Line83Error == IF ~IsNone(prev_h) /\ ci >= Len(forgets) THEN "IndexError" ELSE "RuntimeError"

\* one iteration of the loop over the slices of f * x
CPUStep ==
    /\ main = "cpu_loop"
    /\ ci < Len(prods)
    /\ LET hs == Line83(prods[ci + 1]) IN
       IF hs = {}
         THEN /\ err' = Line83Error
              /\ main' = "raised"
              /\ UNCHANGED <<result, prev_h, ci>>
         ELSE \E h \in hs :
              IF ViewOK(h)
                THEN /\ result' = Append(result, View(h))
                     /\ prev_h' = View(h)
                     /\ ci' = ci + 1
                     /\ UNCHANGED <<err, main>>
                ELSE /\ err' = "RuntimeError"
                     /\ main' = "raised"
                     /\ UNCHANGED <<result, prev_h, ci>>
    /\ UNCHANGED <<f, x, hidden_init, use_cuda, cuda_available, backend, forgets, prods,
                   ret, resulta, resultb, residual, kernvars>>

\* return torch.stack(result)
CPUStack ==
    /\ main = "cpu_loop"
    /\ ci >= Len(prods)
    /\ IF StackOK(result)
         THEN /\ ret' = Stack(result)
              /\ main' = "returned"
              /\ err' = err
         ELSE /\ err' = "RuntimeError"
              /\ main' = "raised"
              /\ ret' = ret
    /\ UNCHANGED <<f, x, hidden_init, use_cuda, cuda_available, backend, forgets, prods, ci,
                   prev_h, result, resulta, resultb, residual, kernvars>>

NextHost ==
    \/ Forward
    \/ CPUStart
    \/ CPUStep
    \/ CPUStack

(***************************************************************************)
(* recurrent_forget_mult: a step of one thread w = <<hid, bid>>.           *)
(***************************************************************************)
\* thread index, range guard, loop initialisation and first loop test
FwdEnter ==
    \E w \in workers :
    /\ kernel = "fwd"
    /\ pc[w] = "start"
    /\ IF OutOfRange(w[1], w[2])
         THEN /\ pc' = [pc EXCEPT ![w] = "done"]
              /\ loc' = loc
         ELSE /\ loc' = [loc EXCEPT ![w].ts = 0 + 1]
              /\ pc' = [pc EXCEPT ![w] = IF 0 + 1 < SEQ + 1 THEN "store" ELSE "done"]
    /\ UNCHANGED <<hostvars, SEQ, BATCH, HIDDEN, kernel, workers, dst, gh, gf, gx,
                   ghinit, log, nwrites, dst0, junk>>

\* the three indices and dst[dst_i] = f[i] * x[i]
FwdStore ==
    \E w \in workers :
    /\ kernel = "fwd"
    /\ pc[w] = "store"
    /\ LET t == loc[w].ts IN
       \E i \in Index(t - 1, w[2], w[1]), dst_i \in Index(t - 0, w[2], w[1]),
          dst_iminus1 \in Index(t - 1, w[2], w[1]) :
          /\ dst' = Wr(dst, dst_i, StoreVal(Rd(f.data, i), Rd(x.data, i)))
          /\ loc' = [loc EXCEPT ![w].i = i, ![w].dst_i = dst_i,
                                ![w].dst_iminus1 = dst_iminus1]
          /\ log' = log \cup {Acc(w, t - 1, "f", i, "r"), Acc(w, t - 1, "x", i, "r"),
                              Acc(w, t, "dst", dst_i, "w")}
          /\ nwrites' = Inc(nwrites, <<"dst", dst_i>>)
    /\ pc' = [pc EXCEPT ![w] = "acc"]
    /\ UNCHANGED <<hostvars, SEQ, BATCH, HIDDEN, kernel, workers, gh, gf, gx, ghinit,
                   dst0, junk>>

\* dst[dst_i] += (1 - f[i]) * dst[dst_iminus1]; ts++ and the loop test
FwdAcc ==
    \E w \in workers :
    /\ kernel = "fwd"
    /\ pc[w] = "acc"
    /\ LET t == loc[w].ts
           i == loc[w].i
           dst_i == loc[w].dst_i
           dst_iminus1 == loc[w].dst_iminus1 IN
          /\ dst' = Wr(dst, dst_i, AccVal(Rd(dst, dst_i), Rd(f.data, i), Rd(dst, dst_iminus1)))
          /\ log' = log \cup {Acc(w, t - 1, "f", i, "r"), Acc(w, t - 1, "dst", dst_iminus1, "r"),
                              Acc(w, t, "dst", dst_i, "r"), Acc(w, t, "dst", dst_i, "w")}
          /\ nwrites' = Inc(nwrites, <<"dst", dst_i>>)
          /\ loc' = [loc EXCEPT ![w].ts = t + 1]
          /\ pc' = [pc EXCEPT ![w] = IF t + 1 < SEQ + 1 THEN "store" ELSE "done"]
    /\ UNCHANGED <<hostvars, SEQ, BATCH, HIDDEN, kernel, workers, gh, gf, gx, ghinit,
                   dst0, junk>>

(***************************************************************************)
(* bwd_recurrent_forget_mult: a step of one thread w = <<hid, bid>>.  h is *)
(* the saved destination array of the forward kernel.                      *)
(***************************************************************************)
\* thread index, range guard, running_f = 0, loop initialisation and first loop test
BwdEnter ==
    \E w \in workers :
    /\ kernel = "bwd"
    /\ pc[w] = "start"
    /\ IF OutOfRange(w[1], w[2])
         THEN /\ pc' = [pc EXCEPT ![w] = "done"]
              /\ loc' = loc
         ELSE /\ loc' = [loc EXCEPT ![w].running_f = 0, ![w].ts = SEQ - 1 + 1]
              /\ pc' = [pc EXCEPT ![w] = IF SEQ - 1 + 1 >= 0 + 1 THEN "iter" ELSE "fin"]
    /\ UNCHANGED <<hostvars, SEQ, BATCH, HIDDEN, kernel, workers, dst, gh, gf, gx,
                   ghinit, log, nwrites, dst0, junk>>

\* one iteration of the reverse loop; ts-- and the loop test
BwdIter ==
    \E w \in workers :
    /\ kernel = "bwd"
    /\ pc[w] = "iter"
    /\ LET t == loc[w].ts IN
       \E i \in Index(t - 1, w[2], w[1]), dst_i \in Index(t - 0, w[2], w[1]),
          dst_iminus1 \in Index(t - 1, w[2], w[1]) :
          LET r1 == loc[w].running_f + Rd(gh, dst_iminus1) IN
          /\ gx' = Wr(gx, i, GxVal(Rd(f.data, i), r1))
          /\ gf' = Wr(gf, i, GfVal(Rd(x.data, i), Rd(dst, dst_iminus1), r1))
          /\ loc' = [loc EXCEPT ![w].i = i, ![w].dst_i = dst_i,
                                ![w].dst_iminus1 = dst_iminus1,
                                ![w].running_f = NextRunning(r1, Rd(f.data, i)),
                                ![w].ts = t - 1]
          /\ log' = log \cup {Acc(w, t - 1, "gh", dst_iminus1, "r"), Acc(w, t - 1, "f", i, "r"),
                              Acc(w, t - 1, "gx", i, "w"), Acc(w, t - 1, "x", i, "r"),
                              Acc(w, t - 1, "h", dst_iminus1, "r"),
                              Acc(w, t - 1, "gf", i, "w")}
          /\ nwrites' = Inc(Inc(nwrites, <<"gx", i>>), <<"gf", i>>)
          /\ pc' = [pc EXCEPT ![w] = IF t - 1 >= 0 + 1 THEN "iter" ELSE "fin"]
    /\ UNCHANGED <<hostvars, SEQ, BATCH, HIDDEN, kernel, workers, dst, gh, ghinit,
                   dst0, junk>>

\* ghinit[bid * HIDDEN + hid] = running_f
BwdFin ==
    \E w \in workers :
    /\ kernel = "bwd"
    /\ pc[w] = "fin"
    /\ \E k \in Index(0, w[2], w[1]) :
          /\ ghinit' = Wr(ghinit, k, loc[w].running_f)
          /\ log' = log \cup {Acc(w, 0, "ghinit", k, "w")}
          /\ nwrites' = Inc(nwrites, <<"ghinit", k>>)
    /\ pc' = [pc EXCEPT ![w] = "done"]
    /\ UNCHANGED <<hostvars, SEQ, BATCH, HIDDEN, kernel, workers, dst, gh, gf, gx, loc,
                   dst0, junk>>

NextKernel ==
    \/ FwdEnter
    \/ FwdStore
    \/ FwdAcc
    \/ BwdEnter
    \/ BwdIter
    \/ BwdFin

(***************************************************************************)
(* The accelerated path, GPUForgetMult: allocation, H[0] = H0 or zero,     *)
(* one thread per lane, H[1..T] returned and H[0..T] saved for backward.   *)
(***************************************************************************)
Grid(hidden, batch) == (0 .. hidden - 1) \X (0 .. batch - 1)

Launch(k, ws) ==
    /\ kernel' = k
    /\ workers' = ws
    /\ pc' = [w \in ws |-> "start"]
    /\ loc' = [w \in ws |-> NoLocals]
    /\ log' = {}
    /\ nwrites' = <<>>

GPULaunch ==
    /\ main = "gpu"
    /\ SEQ' = f.shape[1]
    /\ BATCH' = f.shape[2]
    /\ HIDDEN' = f.shape[3]
    /\ LET lanes == f.shape[2] * f.shape[3]
           d == [k \in Cells((f.shape[1] + 1) * lanes) |->
                    IF k >= lanes THEN junk
                    ELSE IF IsNone(hidden_init) THEN 0 ELSE hidden_init.data[k]]
       IN /\ dst' = d
          /\ dst0' = d
    /\ Launch("fwd", Grid(f.shape[3], f.shape[2]))
    /\ main' = "fwd_kernel"
    /\ UNCHANGED <<f, x, hidden_init, use_cuda, cuda_available, backend, err, forgets,
                   prods, ci, prev_h, result, ret, resulta, resultb, residual,
                   gh, gf, gx, ghinit, junk>>

AllDone == \A w \in workers : pc[w] = "done"

\* return result[1:, :, :]
FwdReturn ==
    /\ main = "fwd_kernel"
    /\ AllDone
    /\ LET lanes == BATCH * HIDDEN IN
       ret' = Tensor(3, <<SEQ, BATCH, HIDDEN>>,
                     [k \in Cells(SEQ * lanes) |-> dst[k + lanes]], TRUE)
    /\ main' = "returned"
    /\ kernel' = "none"
    /\ UNCHANGED <<f, x, hidden_init, use_cuda, cuda_available, backend, err, forgets,
                   prods, ci, prev_h, result, resulta, resultb, residual,
                   SEQ, BATCH, HIDDEN, workers, dst, gh, gf, gx, ghinit, pc, loc, log,
                   nwrites, dst0, junk>>

(***************************************************************************)
(* The caller, as __main__: the accelerated forward and its backward, then *)
(* the sequential reference on the same operands, then the residual.       *)
(***************************************************************************)
GData(n, s) == [k \in Cells(n) |-> ((k * k + s) % 4) - 1]

\* upstream gradients: that of loss = resulta.pow(2).sum(), and others
Upstream == {[k \in DOMAIN resulta.data |-> 2 * resulta.data[k]]}
            \cup {GData(SEQ * BATCH * HIDDEN, s) : s \in 0..MaxSeed}

\* resulta = ForgetMult()(forget, a, last_h, use_cuda=True) returned
GotA ==
    /\ main = "returned"
    /\ backend = "gpu"
    /\ resulta' = ret
    /\ main' = "backward"
    /\ UNCHANGED <<f, x, hidden_init, use_cuda, cuda_available, backend, err, forgets,
                   prods, ci, prev_h, result, ret, resultb, residual, kernvars>>

\* loss.backward()
BwdLaunch ==
    /\ main = "backward"
    /\ \E g \in Upstream : gh' = g
    /\ gf' = [k \in Cells(SEQ * BATCH * HIDDEN) |-> junk]
    /\ gx' = [k \in Cells(SEQ * BATCH * HIDDEN) |-> junk]
    /\ ghinit' = [k \in Cells(BATCH * HIDDEN) |-> junk]
    /\ Launch("bwd", Grid(HIDDEN, BATCH))
    /\ main' = "bwd_kernel"
    /\ UNCHANGED <<f, x, hidden_init, use_cuda, cuda_available, backend, err, forgets,
                   prods, ci, prev_h, result, ret, resulta, resultb, residual,
                   SEQ, BATCH, HIDDEN, dst, dst0, junk>>

BwdReturn ==
    /\ main = "bwd_kernel"
    /\ AllDone
    /\ kernel' = "none"
    /\ main' = "call_b"
    /\ UNCHANGED <<f, x, hidden_init, use_cuda, cuda_available, backend, err, forgets,
                   prods, ci, prev_h, result, ret, resulta, resultb, residual,
                   SEQ, BATCH, HIDDEN, workers, dst, gh, gf, gx, ghinit, pc, loc, log,
                   nwrites, dst0, junk>>

\* resultb = ForgetMult()(forget, a, last_h, use_cuda=False)
CallB ==
    /\ main = "call_b"
    /\ use_cuda' = FALSE
    /\ main' = "call"
    /\ UNCHANGED <<f, x, hidden_init, cuda_available, backend, err, forgets,
                   prods, ci, prev_h, result, ret, resulta, resultb, residual, kernvars>>

\* residual = (resulta - resultb)
Residual ==
    /\ main = "returned"
    /\ backend = "cpu"
    /\ ~IsNone(resulta)
    /\ resultb' = ret
    /\ residual' = TSub(resulta, ret)
    /\ main' = "end"
    /\ UNCHANGED <<f, x, hidden_init, use_cuda, cuda_available, backend, err, forgets,
                   prods, ci, prev_h, result, ret, resulta, kernvars>>

NextMain ==
    \/ GPULaunch
    \/ FwdReturn
    \/ GotA
    \/ BwdLaunch
    \/ BwdReturn
    \/ CallB
    \/ Residual

Next == NextHost \/ NextKernel \/ NextMain

(***************************************************************************)
(* Initial states.                                                         *)
(***************************************************************************)
Seeds == 0 .. MaxSeed

FData(n, s) == [k \in Cells(n) |-> (k + s) % 3]

XData(n, s) == [k \in Cells(n) |-> ((2 * k + s) % 5) - 1]

HData(n, s) == [k \in Cells(n) |-> ((k + 2 * s) % 3) + 1]

\* at most MaxLanes lanes and MaxCells elements
Shapes == {s \in (0 .. MaxSeq) \X (1 .. MaxLanes) \X (1 .. MaxLanes) :
              s[2] * s[3] <= MaxLanes /\ s[1] * s[2] * s[3] <= MaxCells}

NoKernel ==
    /\ SEQ = 0 /\ BATCH = 1 /\ HIDDEN = 1
    /\ kernel = "none"
    /\ workers = {}
    /\ dst = <<>> /\ dst0 = <<>>
    /\ gh = <<>> /\ gf = <<>> /\ gx = <<>> /\ ghinit = <<>>
    /\ pc = <<>> /\ loc = <<>>
    /\ log = {}
    /\ nwrites = <<>>

NoCall ==
    /\ backend = "none"
    /\ err = "none"
    /\ forgets = <<>> /\ prods = <<>> /\ ci = 0 /\ prev_h = None /\ result = <<>>
    /\ ret = None /\ resulta = None /\ resultb = None /\ residual = None

\* well-shaped operands on a capable device, the accelerated path demanded
Init ==
    /\ \E shape \in Shapes, s \in Seeds :
         /\ f = Tensor(3, shape, FData(Numel(shape), s), TRUE)
         /\ x = Tensor(3, shape, XData(Numel(shape), s), TRUE)
         /\ hidden_init \in {None, Tensor(2, <<1, shape[2], shape[3]>>,
                                          HData(shape[2] * shape[3], s), TRUE)}
    /\ use_cuda = TRUE
    /\ cuda_available = TRUE
    /\ main = "call"
    /\ junk \in Garbage
    /\ NoCall
    /\ NoKernel

Spec == Init /\ [][Next]_vars
(***************************************************************************)
(* One call of ForgetMult.forward on arbitrary operands: any placement of  *)
(* well-shaped operands, or any shapes of operands where no device is      *)
(* available.  The accelerated path itself is not followed here.           *)
(***************************************************************************)
HostShapes == (0 .. MaxSeq) \X (1 .. MaxDim) \X (1 .. MaxDim)

InitPlacement ==
    /\ \E shape \in Shapes, fc \in BOOLEAN, xc \in BOOLEAN, hc \in BOOLEAN :
         /\ f = Tensor(3, shape, FData(Numel(shape), 0), fc)
         /\ x = Tensor(3, shape, XData(Numel(shape), 0), xc)
         /\ hidden_init \in {None, Tensor(2, <<1, shape[2], shape[3]>>,
                                          HData(shape[2] * shape[3], 0), hc)}
    /\ use_cuda \in BOOLEAN
    /\ cuda_available \in BOOLEAN

InitShapes ==
    /\ \E fs \in HostShapes, xs \in HostShapes :
         /\ f = Tensor(3, fs, FData(Numel(fs), 0), FALSE)
         /\ x = Tensor(3, xs, XData(Numel(xs), 0), FALSE)
    /\ hidden_init \in {None} \cup
         {Tensor(2, <<1, b, h>>, HData(b * h, 0), FALSE) : b \in 1..MaxDim, h \in 1..MaxDim}
    /\ use_cuda \in BOOLEAN
    /\ cuda_available = FALSE

InitHost ==
    /\ InitPlacement \/ InitShapes
    /\ main = "call"
    /\ junk = 0
    /\ NoCall
    /\ NoKernel

SpecHost == InitHost /\ [][NextHost]_vars

(***************************************************************************)
(* One launch of either kernel with any grid covering the lanes, for the   *)
(* shapes of Shapes and for shapes at the limit of int.  The contents of   *)
(* the arrays are not followed here (every load yields junk), only the     *)
(* accesses.                                                               *)
(***************************************************************************)
LargeShapes == {<<1, 32768, 32768>>, <<2, 32768, 32768>>, <<MaxSeq + 1, 65536, 16384>>}

\* the threads followed of a grid too large to enumerate
Corners(hidden, batch) == {<<0, 0>>, <<hidden - 1, batch - 1>>, <<hidden, batch - 1>>}

InitIdx ==
    /\ \E shape \in Shapes \cup LargeShapes :
         /\ SEQ = shape[1]
         /\ BATCH = shape[2]
         /\ HIDDEN = shape[3]
         /\ f = Tensor(3, shape, <<>>, TRUE)
         /\ x = Tensor(3, shape, <<>>, TRUE)
         /\ workers \in IF shape \in Shapes
                          THEN {Grid(shape[3] + o[1], shape[2] + o[2]) :
                                    o \in {<<0, 0>>, <<1, 0>>, <<0, 1>>}}
                          ELSE {Corners(shape[3], shape[2])}
    /\ kernel \in {"fwd", "bwd"}
    /\ main = IF kernel = "fwd" THEN "fwd_kernel" ELSE "bwd_kernel"
    /\ pc = [w \in workers |-> "start"]
    /\ loc = [w \in workers |-> NoLocals]
    /\ log = {}
    /\ nwrites = <<>>
    /\ dst = <<>> /\ dst0 = <<>>
    /\ gh = <<>> /\ gf = <<>> /\ gx = <<>> /\ ghinit = <<>>
    /\ hidden_init = None
    /\ use_cuda = TRUE
    /\ cuda_available = TRUE
    /\ junk = 0
    /\ backend = "gpu"
    /\ err = "none"
    /\ forgets = <<>> /\ prods = <<>> /\ ci = 0 /\ prev_h = None /\ result = <<>>
    /\ ret = None /\ resulta = None /\ resultb = None /\ residual = None

SpecIdx == InitIdx /\ [][NextKernel]_vars
(***************************************************************************)
(* Properties.  Time steps are numbered as in the recurrence: F[t] and     *)
(* X[t], t in 1..T, are stored at time index t - 1 of f and x, H[t] at     *)
(* time index t of the destination array.                                  *)
(***************************************************************************)
Lanes == (0 .. BATCH - 1) \X (0 .. HIDDEN - 1)

\* position of time index t of lane <<b, h>> in a (time, batch, hidden) array
Pos(t, l) == (t * BATCH + l[1]) * HIDDEN + l[2]

F(t, l) == f.data[Pos(t - 1, l)]

X(t, l) == x.data[Pos(t - 1, l)]

H(t, l) == dst[Pos(t, l)]

GH(t, l) == gh[Pos(t - 1, l)]

\* the forward kernel was launched and all its threads have returned
FwdRan == DOMAIN dst # {} /\ (kernel = "fwd" => AllDone)

\* the backward kernel was launched and all its threads have returned
BwdRan == DOMAIN ghinit # {} /\ (kernel = "bwd" => AllDone)

\* C1: once the forward kernel has run for all lanes, every lane and every t in
\* 1..T satisfy H[t] = F[t]*X[t] + (1 - F[t])*H[t-1]
C1_Recurrence ==
    FwdRan =>
        \A l \in Lanes : \A t \in 1..SEQ :
            H(t, l) = F(t, l) * X(t, l) + (1 - F(t, l)) * H(t - 1, l)

\* the forward kernel has run on several lanes and time steps from a given H0,
\* and the state carried over decides the last H of some lane
C1_Witness ==
    /\ FwdRan
    /\ SEQ = MaxSeq /\ BATCH >= 2 /\ HIDDEN >= 2
    /\ ~IsNone(hidden_init)
    /\ \E l \in Lanes : H(SEQ, l) # F(SEQ, l) * X(SEQ, l) /\ H(SEQ - 1, l) # H(SEQ, l)

RECURSIVE Atten(_, _, _)
\* product over k in lo..hi of (1 - F[k])
Atten(lo, hi, l) == IF lo > hi THEN 1 ELSE (1 - F(hi, l)) * Atten(lo, hi - 1, l)

RECURSIVE Adjoint(_, _, _, _)
\* sum over s in lo..hi of gH[s] * product over k in from..s of (1 - F[k])
Adjoint(from, lo, hi, l) ==
    IF lo > hi THEN 0 ELSE GH(hi, l) * Atten(from, hi, l) + Adjoint(from, lo, hi - 1, l)

\* A[t] = sum over s in t..T of gH[s] * product over k in t+1..s of (1 - F[k])
A(t, l) == Adjoint(t + 1, t, SEQ, l)

\* C2: once the backward kernel has run, dX[t] = F[t]*A[t], dF[t] = (X[t] - H[t-1])*A[t]
\* and dH0 = sum over s of gH[s] * product over k in 1..s of (1 - F[k])
C2_Adjoint ==
    BwdRan =>
        \A l \in Lanes :
            /\ \A t \in 1..SEQ :
                  /\ gx[Pos(t - 1, l)] = F(t, l) * A(t, l)
                  /\ gf[Pos(t - 1, l)] = (X(t, l) - H(t - 1, l)) * A(t, l)
            /\ ghinit[Pos(0, l)] = Adjoint(1, 1, SEQ, l)

\* the backward kernel has run over several steps with gradients that reach H0
C2_Witness ==
    /\ BwdRan
    /\ SEQ = MaxSeq /\ BATCH >= 2 /\ HIDDEN >= 2
    /\ \E l \in Lanes :
          /\ ghinit[Pos(0, l)] # 0
          /\ gx[Pos(0, l)] # F(1, l) * GH(1, l)
          /\ gf[Pos(0, l)] # 0

\* C3: for T >= 1 the sequential reference returns, and returns the H[1..T] the
\* forward kernel left in the destination array (H[0] = H0, or zero without H0)
C3_Equivalence ==
    (backend = "cpu" /\ f.shape[1] >= 1) =>
        /\ main # "raised"
        /\ main \in {"returned", "end"} =>
              /\ ret.shape = <<SEQ, BATCH, HIDDEN>>
              /\ \A l \in Lanes : \A t \in 1..SEQ : ret.data[Pos(t - 1, l)] = H(t, l)
              /\ \A l \in Lanes : H(0, l) = IF IsNone(hidden_init) THEN 0
                                            ELSE hidden_init.data[Pos(0, l)]

\* both backends have returned for an absent H0, several lanes and time steps
C3_Witness ==
    /\ main = "end"
    /\ IsNone(hidden_init)
    /\ SEQ = MaxSeq /\ BATCH >= 2 /\ HIDDEN >= 2
    /\ \E l \in Lanes : resultb.data[Pos(SEQ - 1, l)] # F(SEQ, l) * X(SEQ, l)
\* the accelerated path cannot run on the operands
CannotAccelerate ==
    \/ ~cuda_available
    \/ ~f.is_cuda
    \/ ~x.is_cuda
    \/ ~IsNone(hidden_init) /\ ~hidden_init.is_cuda

Compatible(a, b) == a = b \/ a = 1 \/ b = 1

Combined(a, b) == IF a = 1 THEN b ELSE a

\* F and X are broadcast-compatible in every dimension
FXCompatible == \A d \in 1..3 : Compatible(f.shape[d], x.shape[d])

\* a supplied H0 is broadcast-compatible with the (batch, hidden) of F and of F * X
H0Compatible ==
    IsNone(hidden_init) \/
    \A d \in 2..3 :
        /\ Compatible(hidden_init.shape[d], f.shape[d])
        /\ Compatible(Combined(hidden_init.shape[d], f.shape[d]),
                      Combined(f.shape[d], x.shape[d]))

\* F and X differ in shape, or a supplied H0 is not (batch, hidden)
Mismatched ==
    \/ f.shape # x.shape
    \/ ~IsNone(hidden_init) /\ hidden_init.shape # <<1, f.shape[2], f.shape[3]>>

C6_EmptySequence ==
    (f.shape[1] = 0 /\ ~Mismatched /\ ~(use_cuda /\ CannotAccelerate)) =>
        /\ main # "raised"
        /\ main = "returned" => ret.shape = f.shape
\* stores made to position k of array arr by the threads of the running kernel
Stores(arr, k) == IF <<arr, k>> \in DOMAIN nwrites THEN nwrites[<<arr, k>>] ELSE 0

\* the threads that stored to position k of array arr, with the time index they
\* computed the position from
Storers(arr, k) == {<<a[1], a[2]>> : a \in {b \in log : b[3] = arr /\ b[4] = k /\ b[5] = "w"}}

\* the thread of lane l = <<b, h>>
Thread(l) == <<l[2], l[1]>>

\* the forward kernel has run and the backward kernel was not launched yet
FwdCounted == FwdRan /\ DOMAIN ghinit = {}

\* C7 as stated: in a forward pass every position of H, H[0] included (set once
\* by the host before the launch), is written exactly once
C7_WriteOnce ==
    FwdCounted =>
        \A l \in Lanes :
            /\ 1 + Stores("dst", Pos(0, l)) = 1
            /\ \A t \in 1..SEQ : Stores("dst", Pos(t, l)) = 1

\* C7 as the kernels behave: the forward kernel never stores to H[0] and stores to
\* each H[t], t in 1..T, twice, both from the thread of the lane at time index t; the
\* backward kernel stores to each dF[t], dX[t] and dH0 once, from the thread of the lane
C7_WriteCounts ==
    /\ \A k \in DOMAIN nwrites : nwrites[k] <= IF k[1] = "dst" THEN 2 ELSE 1
    /\ FwdCounted =>
          \A l \in Lanes :
              /\ Stores("dst", Pos(0, l)) = 0
              /\ \A t \in 1..SEQ :
                    /\ Stores("dst", Pos(t, l)) = 2
                    /\ Storers("dst", Pos(t, l)) = {<<Thread(l), t>>}
    /\ BwdRan =>
          \A l \in Lanes :
              /\ Stores("ghinit", Pos(0, l)) = 1
              /\ Storers("ghinit", Pos(0, l)) = {<<Thread(l), 0>>}
              /\ \A t \in 1..SEQ :
                    /\ Stores("gx", Pos(t - 1, l)) = 1
                    /\ Stores("gf", Pos(t - 1, l)) = 1
                    /\ Storers("gx", Pos(t - 1, l)) = {<<Thread(l), t - 1>>}
                    /\ Storers("gf", Pos(t - 1, l)) = {<<Thread(l), t - 1>>}

\* a forward pass over several lanes and steps has ended: the last H of the last
\* lane was stored twice
C7_Witness ==
    /\ FwdCounted
    /\ SEQ = MaxSeq /\ BATCH >= 2 /\ HIDDEN >= 2
    /\ Stores("dst", Pos(SEQ, <<BATCH - 1, HIDDEN - 1>>)) = 2

RECURSIVE LaneH(_, _)
\* H[t] of lane l as the lane alone computes it from its own F, X and H[0]
LaneH(t, l) ==
    IF t = 0 THEN dst0[Pos(0, l)]
    ELSE F(t, l) * X(t, l) + (1 - F(t, l)) * LaneH(t - 1, l)

RECURSIVE LaneAcc(_, _)
\* the accumulator of lane l, alone, on entering iteration t of the reverse loop
LaneAcc(t, l) ==
    IF t >= SEQ THEN 0
    ELSE LET r == LaneAcc(t + 1, l) + GH(t + 1, l) IN r - F(t + 1, l) * r

\* two accesses of different threads to one element, one of them a store
Conflict(a, b) == a[1] # b[1] /\ a[3] = b[3] /\ a[4] = b[4] /\ (a[5] = "w" \/ b[5] = "w")

\* C8: in every interleaving no thread accesses an element another thread stores
\* to, and what a thread that has returned leaves for its lane is what the lane
\* alone computes from the inputs of the lane, whatever the other threads did
C8_LaneIsolation ==
    /\ \A a \in log : \A b \in log : ~Conflict(a, b)
    /\ kernel = "fwd" =>
          \A l \in Lanes : pc[Thread(l)] = "done" =>
              \A t \in 1..SEQ : H(t, l) = LaneH(t, l)
    /\ kernel = "bwd" =>
          \A l \in Lanes : pc[Thread(l)] = "done" =>
              /\ ghinit[Pos(0, l)] = LaneAcc(0, l)
              /\ \A t \in 1..SEQ :
                    /\ gx[Pos(t - 1, l)] = F(t, l) * (LaneAcc(t, l) + GH(t, l))
                    /\ gf[Pos(t - 1, l)] =
                          (X(t, l) - LaneH(t - 1, l)) * (LaneAcc(t, l) + GH(t, l))

\* threads are interleaved: one has returned with a result that depends on H0,
\* another is between the two stores of its first step, a third has not started
C8_Witness ==
    /\ kernel = "fwd"
    /\ SEQ = MaxSeq /\ BATCH >= 2 /\ HIDDEN >= 2
    /\ pc[<<0, 0>>] = "start"
    /\ pc[<<1, 0>>] = "acc" /\ loc[<<1, 0>>].ts = 1
    /\ pc[<<1, 1>>] = "done"
    /\ H(SEQ, <<1, 1>>) # F(SEQ, <<1, 1>>) * X(SEQ, <<1, 1>>)

\* the H[0] slice of the destination array is as the launch left it
H0Kept == \A k \in DOMAIN dst0 : k < BATCH * HIDDEN => dst[k] = dst0[k]

\* C9: no step of a forward pass changes F, X or H0 (in the kernel, the H[0]
\* slice), and no step of a backward pass changes the saved H, F, X or gH
C9_ReadOnly ==
    [][/\ f' = f /\ x' = x /\ hidden_init' = hidden_init
       /\ kernel = "fwd" => H0Kept'
       /\ kernel = "bwd" => dst' = dst /\ gh' = gh]_vars

\* both kernels have run over several lanes and steps from a given non-zero H0
C9_Witness ==
    /\ BwdRan
    /\ SEQ = MaxSeq /\ BATCH >= 2 /\ HIDDEN >= 2
    /\ ~IsNone(hidden_init)
    /\ \A l \in Lanes : H(0, l) = hidden_init.data[Pos(0, l)] /\ H(0, l) # 0
    /\ \E l \in Lanes : H(1, l) # H(0, l)

\* elements of the array: of f, x, gh, gf, gx SEQ * BATCH * HIDDEN, of h and dst
\* (SEQ + 1) * BATCH * HIDDEN, of ghinit BATCH * HIDDEN
InBounds(arr, k) ==
    /\ k >= 0
    /\ k \div (BATCH * HIDDEN) <
          (IF arr \in {"dst", "h"} THEN SEQ + 1 ELSE IF arr = "ghinit" THEN 1 ELSE SEQ)

\* the threads that pass the range guard
Valid == {w \in workers : w[1] < HIDDEN /\ w[2] < BATCH}

\* only threads in range access anything, only elements of the arrays, and each
\* element of an array from one thread and one time index only
IndexSafe ==
    /\ \A a \in log : a[1] \in Valid /\ InBounds(a[3], a[4])
    /\ \A a \in log : \A b \in log :
          (a[3] = b[3] /\ a[4] = b[4]) => (a[1] = b[1] /\ a[2] = b[2])

\* the index map is injective over the time indices of the threads in range
Injective ==
    \A v \in Valid : \A w \in Valid : \A t \in 0..SEQ : \A u \in 0..SEQ :
        <<v, t>> # <<w, u>> => Index(t, v[2], v[1]) # Index(u, w[2], w[1])

\* C10 as stated: for every SEQ, BATCH and HIDDEN the threads outside the range
\* access nothing, the others only access elements of the arrays, and the index
\* map is injective
C10_IndexSafe == IndexSafe

\* (SEQ + 1) * BATCH * HIDDEN <= 2^31: every index of the arrays fits an int
FitsInt == SEQ <= (IntMax - (BATCH * HIDDEN - 1)) \div (BATCH * HIDDEN)

\* C10 restricted to arrays whose indices fit an int: the accesses are safe and
\* the index map is injective
C10_IndexSafeInt == FitsInt => IndexSafe /\ Injective

\* the last thread of the largest grid whose indices fit has stored to the last
\* element of the destination array, while a thread outside the range has returned
C10_Witness ==
    /\ FitsInt
    /\ kernel = "fwd"
    /\ \E a \in log : a[3] = "dst" /\ a[5] = "w" /\ a[4] = IntMax
    /\ \E w \in workers : w \notin Valid /\ pc[w] = "done"
====
